---------------------------- MODULE Spec2Model ----------------------------
(***************************************************************************)
(* A model of the Grouper power HAL (src/power/power.c).                   *)
(*                                                                         *)
(* Threads: the host thread that runs grouper_power_init, the listener     *)
(* thread it creates (thread_uevent), and caller threads that invoke       *)
(* grouper_power_hint.  Shared program state: low_power_mode, freq_set[],  *)
(* low_power_mode_lock and pfd.  Environment: the per-CPU sysfs endpoints  *)
(* scaling_min_freq / scaling_max_freq, whose contents before the HAL      *)
(* writes them are not set by this code, and the netlink socket.           *)
(***************************************************************************)
EXTENDS Integers, Sequences, FiniteSets, TLC

(***************************************************************************)
(* Program constants (power.c lines 38-45).                                *)
(***************************************************************************)
UEVENT_MSG_LEN == 2048
TOTAL_CPUS == 4
RETRY_TIME_CHANGING_FREQ == 20
LOW_POWER_MAX_FREQ == "640000"
LOW_POWER_MIN_FREQ == "51000"
NORMAL_MAX_FREQ == "1300000"
UEVENT_STRING ==
  <<"o","n","l","i","n","e","@","/","d","e","v","i","c","e","s","/",
    "s","y","s","t","e","m","/","c","p","u","/">>

(***************************************************************************)
(* Bounds of the model.                                                    *)
(***************************************************************************)
\* number of threads calling grouper_power_hint concurrently
NumCallers == 2
\* writes to the endpoints of the NumFaulty highest-numbered CPUs may fail
\* (each attempt independently); writes to the other CPUs always succeed
NumFaulty == 1
\* the process can hold at most MaxOpenFds descriptors of its own; open()
\* fails once that many are open
MaxOpenFds == 3

CPUS == 0 .. (TOTAL_CPUS - 1)
FaultyCpus == {c \in CPUS : c >= TOTAL_CPUS - NumFaulty}
CallerNames == <<"caller1", "caller2", "caller3", "caller4">>
Callers == {CallerNames[k] : k \in 1 .. NumCallers}
Listener == "thread_uevent"
Host == "host"
Threads == Callers \cup {Listener, Host}
NoThread == "none"

(***************************************************************************)
(* Endpoint contents when the module is loaded: whatever the kernel or an  *)
(* earlier process left there (the code never reads them and                *)
(* grouper_power_init does not write them).  BOOT_FREQ stands for any      *)
(* value different from the three the HAL writes.  Every CPU starts with   *)
(* the same contents.                                                      *)
(***************************************************************************)
BOOT_FREQ == "boot"
BootMaxFreqs == {NORMAL_MAX_FREQ, LOW_POWER_MAX_FREQ, BOOT_FREQ}
BootMinFreqs == {BOOT_FREQ}

(***************************************************************************)
(* Kernel event datagrams.  str is the first NUL-terminated string of the  *)
(* datagram, as a sequence of characters; len is what recv returns: the    *)
(* datagram's length, cut to the buffer size, 0, or -1 on error.           *)
(***************************************************************************)
CpuPath == <<"c","p","u">>
OnlineMsg(tail) == UEVENT_STRING \o CpuPath \o tail
ChangeMsg ==
  <<"c","h","a","n","g","e","@","/","d","e","v","i","c","e","s","/",
    "s","y","s","t","e","m","/","c","p","u","/","c","p","u","0">>
Digits == <<"0","1","2","3","4","5","6","7","8","9">>
IsDigit(c) == \E k \in 1..10 : Digits[k] = c
DigitVal(c) == (CHOOSE k \in 1..10 : Digits[k] = c) - 1
CpuTails == {<<Digits[c + 1]>> : c \in CPUS}
Tail4 == <<"4">>
TailMinus1 == <<"-","1">>
Dgram(s, l) == [str |-> s, len |-> l]
NoMsg == Dgram(<< >>, 0)
\* datagrams that fit in the buffer
FitDatagrams ==
  {Dgram(OnlineMsg(t), Len(OnlineMsg(t)) + 1) :
      t \in CpuTails \cup {Tail4, TailMinus1}}
  \cup {Dgram(ChangeMsg, Len(ChangeMsg) + 1)}
\* a datagram that fills the buffer although it starts as a valid event
OverflowDatagrams == {Dgram(OnlineMsg(<<"3">>), UEVENT_MSG_LEN)}
\* recv returning 0 or -1: nothing is stored in the buffer
EmptyDatagrams == {Dgram(<< >>, 0), Dgram(<< >>, -1)}
Datagrams == FitDatagrams \cup OverflowDatagrams \cup EmptyDatagrams

VARIABLES
  low_power_mode,        \* static bool low_power_mode
  freq_set,              \* static bool freq_set[TOTAL_CPUS]
  low_power_mode_lock,   \* the thread holding the mutex, or NoThread
  pfd,                   \* static struct pollfd pfd: [fd, events]
  bound,                 \* whether bind() has bound the socket
  scaling_max_freq,      \* contents of cpuN/cpufreq/scaling_max_freq
  scaling_min_freq,      \* contents of cpuN/cpufreq/scaling_min_freq
  boot_max_freq,         \* what every scaling_max_freq held at load time
  boot_min_freq,         \* what every scaling_min_freq held at load time
  pc,                    \* each thread's position
  polled,                \* the events mask the running poll() was called with
  msg,                   \* uevent_event: the datagram received into msg[]
  n,                     \* uevent_event: n
  retry,                 \* uevent_event: retry
  uret,                  \* thread_uevent: ret, the result of uevent_event
  cpu,                   \* per thread: cpu (uevent_event, grouper_power_hint)
  ret,                   \* uevent_event: ret, per thread (grouper_power_hint's
                         \* ret is dead once tested and is not kept)
  data,                  \* grouper_power_hint: data != NULL
  nwrites,               \* per thread: sysfs_write calls on per-CPU endpoints
                         \* made by the operation in progress
  again,                 \* grouper_power_hint: the call repeats the mode of
                         \* the call before it, which left every flag
                         \* agreeing with that mode
  hinted,                \* some POWER_HINT_LOW_POWER call has returned
  sw_pc,                 \* sysfs_write: each thread's position inside a call
  sw_fd,                 \* sysfs_write: fd, per thread
  sw_ret,                \* sysfs_write: the value the call returns
  open_fds               \* descriptors the process has open through open()

vars == <<low_power_mode, freq_set, low_power_mode_lock, pfd, bound,
          scaling_max_freq, scaling_min_freq, boot_max_freq, boot_min_freq,
          pc, polled, msg, n, retry, uret, cpu, ret, data, nwrites, again,
          hinted, sw_pc, sw_fd, sw_ret, open_fds>>

shared == <<low_power_mode, freq_set, scaling_max_freq, scaling_min_freq>>
sockvars == <<pfd, bound, polled>>
bootvars == <<boot_max_freq, boot_min_freq>>
envvars == <<bootvars, hinted>>
evlocals == <<msg, n, retry, uret>>
hintlocals == <<data, again>>
\* the inside of sysfs_write, which only SpecFd follows; the other actions
\* take a call as one step with its result
fdvars == <<sw_pc, sw_fd, sw_ret, open_fds>>
\* what most steps leave alone
quiet == <<fdvars, envvars>>
\* everything but the inside of sysfs_write
progvars == <<low_power_mode, freq_set, low_power_mode_lock, pfd, bound,
              scaling_max_freq, scaling_min_freq, boot_max_freq,
              boot_min_freq, pc, polled, msg, n, retry, uret, cpu, ret, data,
              nwrites, again, hinted>>


(***************************************************************************)
(* Helpers: the C library calls the code makes.                            *)
(***************************************************************************)
\* strstr(h, nd) != NULL
Strstr(h, nd) ==
  \E i \in 1 .. (Len(h) - Len(nd) + 1) : SubSeq(h, i, i + Len(nd) - 1) = nd

\* strlen of the first string of the buffer
Strlen(s) == Len(s)

\* strtol(s, NULL, 10): an optional sign, then the longest run of digits.
\* The code hands it the last character of the string only, so the value
\* never leaves the range of long.
RECURSIVE StrtolDigits(_, _, _)
StrtolDigits(s, i, acc) ==
  IF i > Len(s) \/ ~IsDigit(s[i]) THEN acc
  ELSE StrtolDigits(s, i + 1, 10 * acc + DigitVal(s[i]))
StrtolSigned(s) == Len(s) >= 1 /\ s[1] \in {"-", "+"}
StrtolConverts(s) ==
  LET first == IF StrtolSigned(s) THEN 2 ELSE 1
  IN  first <= Len(s) /\ IsDigit(s[first])
Strtol(s) ==
  IF ~StrtolConverts(s) THEN 0
  ELSE IF StrtolSigned(s)
       THEN (IF s[1] = "-" THEN -1 ELSE 1) * StrtolDigits(s, 2, 0)
       ELSE StrtolDigits(s, 1, 0)
\* errno after strtol: untouched ("0", as set on line 108) after a
\* conversion; when no digits were found the C library may or may not set
\* EINVAL
StrtolErrnos(s) == IF StrtolConverts(s) THEN {"0"} ELSE {"0", "EINVAL"}

\* cp + n - 1: the text from the last character of the string on
LastCharText(s, len) == SubSeq(s, len, Len(s))

\* line 97: n <= 0
RecvFailed(len) == len <= 0
\* line 100: n >= UEVENT_MSG_LEN
OverflowOffByOne(len) == len > UEVENT_MSG_LEN
Overflow(len) == len >= UEVENT_MSG_LEN
\* line 111
CpuRejected(errno, c) ==
  errno = "EINVAL" \/ errno = "ERANGE" \/ c < 0 \/ c >= TOTAL_CPUS

\* sysfs_write(path, s) returns 0 or -1; the per-CPU endpoints of a faulty
\* CPU can fail on any attempt
SysfsResults(c) == IF c \in FaultyCpus THEN {0, -1} ELSE {0}
\* the endpoint array after sysfs_write(path[c], s) returned r: a failed
\* write leaves the endpoint as it was
SysfsWriteDropped(endpoint, c, s, r) == endpoint
SysfsWriteNextCpu(endpoint, c, s, r) ==
  IF r = 0 THEN [endpoint EXCEPT ![(c + 1) % TOTAL_CPUS] = s] ELSE endpoint
SysfsWrite(endpoint, c, s, r) ==
  IF r = 0 THEN [endpoint EXCEPT ![c] = s] ELSE endpoint

\* pthread_mutex_lock(&low_power_mode_lock) by thread t
MutexLockNoWait(t) == low_power_mode_lock' = t
MutexLock(t) ==
  /\ low_power_mode_lock = NoThread
  /\ low_power_mode_lock' = t
\* pthread_mutex_unlock(&low_power_mode_lock) by thread t
MutexUnlockKeeps(t) ==
  /\ low_power_mode_lock = t
  /\ low_power_mode_lock' = low_power_mode_lock
MutexUnlock(t) ==
  /\ low_power_mode_lock = t
  /\ low_power_mode_lock' = NoThread

\* line 116 and line 127: the two conditions of uevent_event
NeedLowPowerAlways(c) == low_power_mode
NeedLowPower(c) == low_power_mode /\ ~freq_set[c]
NeedNormalWrongFlag(c) == ~low_power_mode /\ ~freq_set[c]
NeedNormal(c) == ~low_power_mode /\ freq_set[c]

(***************************************************************************)
(* The state when the module has been loaded: the statics of lines 47-65.  *)
(***************************************************************************)
Init ==
  /\ low_power_mode = FALSE
  /\ freq_set = [c \in CPUS |-> FALSE]
  /\ low_power_mode_lock = NoThread
  /\ pfd = [fd |-> 0, events |-> {}]
  /\ bound = FALSE
  /\ boot_max_freq \in BootMaxFreqs
  /\ boot_min_freq \in BootMinFreqs
  /\ scaling_max_freq = [c \in CPUS |-> boot_max_freq]
  /\ scaling_min_freq = [c \in CPUS |-> boot_min_freq]
  /\ pc = [t \in Threads |->
             IF t = Host THEN "power_init"
             ELSE IF t = Listener THEN "unborn" ELSE "idle"]
  /\ polled = {}
  /\ msg = NoMsg
  /\ n = 0
  /\ retry = RETRY_TIME_CHANGING_FREQ
  /\ uret = 0
  /\ cpu = [t \in Threads |-> 0]
  /\ ret = [t \in Threads |-> 0]
  /\ data = [t \in Callers |-> FALSE]
  /\ nwrites = [t \in Threads |-> 0]
  /\ again = [t \in Callers |-> FALSE]
  /\ hinted = FALSE
  /\ sw_pc = [t \in Threads |-> "out"]
  /\ sw_fd = [t \in Threads |-> -1]
  /\ sw_ret = [t \in Threads |-> 0]
  /\ open_fds = 0

Goto(t, l) == pc' = [pc EXCEPT ![t] = l]

(***************************************************************************)
(* grouper_power_init and uevent_init (lines 164-223), run by the host.    *)
(***************************************************************************)
\* lines 192-221 (tuning writes, which touch no state of this model) and
\* line 168-173: socket(); on failure the listener is not started
PowerInit ==
  /\ pc[Host] = "power_init"
  /\ \E fd \in {-1, 3} :
       /\ pfd' = [pfd EXCEPT !.fd = fd]
       /\ Goto(Host, IF fd < 0 THEN "init_done" ELSE "ui_create")
  /\ UNCHANGED <<quiet, shared, low_power_mode_lock, bound, polled,
                 evlocals, cpu, ret, hintlocals, nwrites>>

\* line 175: pthread_create starts thread_uevent
UeventInitCreate ==
  /\ pc[Host] = "ui_create"
  /\ pc' = [pc EXCEPT ![Host] = "ui_events", ![Listener] = "poll_call"]
  /\ UNCHANGED <<quiet, shared, low_power_mode_lock, sockvars, evlocals,
                 cpu, ret, hintlocals, nwrites>>

\* line 179: pfd.events = POLLIN
UeventInitEvents ==
  /\ pc[Host] = "ui_events"
  /\ pfd' = [pfd EXCEPT !.events = {"POLLIN"}]
  /\ Goto(Host, "ui_bind")
  /\ UNCHANGED <<quiet, shared, low_power_mode_lock, bound, polled,
                 evlocals, cpu, ret, hintlocals, nwrites>>

\* line 180: bind to the kernel-event multicast groups
UeventInitBind ==
  /\ pc[Host] = "ui_bind"
  /\ bound' = TRUE
  /\ Goto(Host, "init_done")
  /\ UNCHANGED <<quiet, shared, low_power_mode_lock, pfd, polled,
                 evlocals, cpu, ret, hintlocals, nwrites>>

(***************************************************************************)
(* thread_uevent (lines 143-161) and uevent_event (lines 90-141).          *)
(***************************************************************************)
\* line 148: poll(&pfd, 1, -1) is entered and reads pfd.events
PollCall ==
  /\ pc[Listener] = "poll_call"
  /\ polled' = pfd.events
  /\ Goto(Listener, "poll_wait")
  /\ UNCHANGED <<quiet, shared, low_power_mode_lock, pfd, bound, evlocals,
                 cpu, ret, hintlocals, nwrites>>

\* line 148: poll returns because the socket is readable
PollReady ==
  /\ pc[Listener] = "poll_wait"
  /\ "POLLIN" \in polled
  /\ bound
  /\ Goto(Listener, "uevent_event")
  /\ UNCHANGED <<quiet, shared, low_power_mode_lock, sockvars, evlocals,
                 cpu, ret, hintlocals, nwrites>>

\* lines 150-152: poll returns -1 with errno = EINTR; continue
PollEintr ==
  /\ pc[Listener] = "poll_wait"
  /\ Goto(Listener, "poll_call")
  /\ UNCHANGED <<quiet, shared, low_power_mode_lock, sockvars, evlocals,
                 cpu, ret, hintlocals, nwrites>>

\* lines 150-154: poll returns -1 with another errno; break
PollFail ==
  /\ pc[Listener] = "poll_wait"
  /\ Goto(Listener, "exited")
  /\ UNCHANGED <<quiet, shared, low_power_mode_lock, sockvars, evlocals,
                 cpu, ret, hintlocals, nwrites>>

\* lines 96-113: recv, the length checks, the signature match and the
\* conversion of the CPU index.  These touch only locals of the thread.
UeventRecv ==
  /\ pc[Listener] = "uevent_event"
  /\ \E d \in Datagrams :
       /\ msg' = d
       /\ IF RecvFailed(d.len) \/ Overflow(d.len)
          THEN /\ n' = d.len
               /\ uret' = -1
               /\ cpu' = cpu
               /\ Goto(Listener, "ev_ret")
          ELSE IF ~Strstr(d.str, UEVENT_STRING)
          THEN /\ n' = d.len
               /\ uret' = 0
               /\ cpu' = cpu
               /\ Goto(Listener, "ev_ret")
          ELSE /\ n' = Strlen(d.str)
               /\ \E errno \in
                       StrtolErrnos(LastCharText(d.str, Strlen(d.str))) :
                    LET c == Strtol(LastCharText(d.str, Strlen(d.str)))
                    IN  /\ cpu' = [cpu EXCEPT ![Listener] = c]
                        /\ IF CpuRejected(errno, c)
                           THEN uret' = -1 /\ Goto(Listener, "ev_ret")
                           ELSE uret' = uret /\ Goto(Listener, "ev_lock")
  /\ UNCHANGED <<quiet, shared, low_power_mode_lock, sockvars, retry, ret,
                 hintlocals, nwrites>>

\* line 115
UeventLock ==
  /\ pc[Listener] = "ev_lock"
  /\ MutexLock(Listener)
  /\ Goto(Listener, "ev_branch")
  /\ UNCHANGED <<quiet, shared, sockvars, evlocals, cpu, ret, hintlocals,
                 nwrites>>

\* lines 116, 117, 127, 128: which loop, if any, is entered
UeventBranch ==
  /\ pc[Listener] = "ev_branch"
  /\ Goto(Listener,
          IF NeedLowPower(cpu[Listener]) THEN "ev_lp_min"
          ELSE IF NeedNormal(cpu[Listener]) THEN "ev_n_max"
          ELSE "ev_unlock")
  /\ UNCHANGED <<quiet, shared, low_power_mode_lock, sockvars, evlocals,
                 cpu, ret, hintlocals, nwrites>>

\* line 118: the minimum is written and the result dropped
UeventLpMin ==
  /\ pc[Listener] = "ev_lp_min"
  /\ \E r \in SysfsResults(cpu[Listener]) :
       scaling_min_freq' =
         SysfsWrite(scaling_min_freq, cpu[Listener], LOW_POWER_MIN_FREQ, r)
  /\ nwrites' = [nwrites EXCEPT ![Listener] = @ + 1]
  /\ Goto(Listener, "ev_lp_max")
  /\ UNCHANGED <<quiet, low_power_mode, freq_set, scaling_max_freq,
                 low_power_mode_lock, sockvars, evlocals, cpu, ret,
                 hintlocals>>

\* the flag of a CPU after the maximum write returned r: set to v on
\* success, left as it was otherwise (lines 120-121, 130-131, 260-261,
\* 269-270)
FlagAfterAnyResult(old, r, v) == v
FlagAfterFailClears(old, r, v) == IF r = 0 THEN v ELSE FALSE
FlagAfter(old, r, v) == IF r = 0 THEN v ELSE old

\* retry after an attempt whose maximum write returned r: untouched by the
\* break of a success, one less after a failure (lines 122, 125, 132, 135)
RetryKept(old, r) == old
RetryAfter(old, r) == IF r = 0 THEN old ELSE old - 1

\* lines 119-126 and 117: the maximum is written; on success the flag is
\* set and the loop left, otherwise retry is decremented and tested
UeventLpMax ==
  /\ pc[Listener] = "ev_lp_max"
  /\ \E r \in SysfsResults(cpu[Listener]) :
       /\ scaling_max_freq' =
            SysfsWrite(scaling_max_freq, cpu[Listener], LOW_POWER_MAX_FREQ, r)
       /\ ret' = [ret EXCEPT ![Listener] = r]
       /\ freq_set' = [freq_set EXCEPT
                         ![cpu[Listener]] = FlagAfter(@, r, TRUE)]
       /\ retry' = RetryAfter(retry, r)
       /\ Goto(Listener,
               IF r = 0 \/ RetryAfter(retry, r) = 0
               THEN "ev_unlock" ELSE "ev_lp_min")
  /\ nwrites' = [nwrites EXCEPT ![Listener] = @ + 1]
  /\ UNCHANGED <<quiet, low_power_mode, scaling_min_freq,
                 low_power_mode_lock, sockvars, msg, n, uret, cpu,
                 hintlocals>>

\* lines 128-136
UeventNMax ==
  /\ pc[Listener] = "ev_n_max"
  /\ \E r \in SysfsResults(cpu[Listener]) :
       /\ scaling_max_freq' =
            SysfsWrite(scaling_max_freq, cpu[Listener], NORMAL_MAX_FREQ, r)
       /\ ret' = [ret EXCEPT ![Listener] = r]
       /\ freq_set' = [freq_set EXCEPT
                         ![cpu[Listener]] = FlagAfter(@, r, FALSE)]
       /\ retry' = RetryAfter(retry, r)
       /\ Goto(Listener,
               IF r = 0 \/ RetryAfter(retry, r) = 0
               THEN "ev_unlock" ELSE "ev_n_max")
  /\ nwrites' = [nwrites EXCEPT ![Listener] = @ + 1]
  /\ UNCHANGED <<quiet, low_power_mode, scaling_min_freq,
                 low_power_mode_lock, sockvars, msg, n, uret, cpu,
                 hintlocals>>

\* lines 138-140, 156-157 and 145: unlock and return 0; nothing is logged
\* and the loop goes round.  The locals of the call are gone.
UeventUnlock ==
  /\ pc[Listener] = "ev_unlock"
  /\ MutexUnlock(Listener)
  /\ Goto(Listener, "poll_call")
  /\ msg' = NoMsg
  /\ n' = 0
  /\ retry' = RETRY_TIME_CHANGING_FREQ
  /\ uret' = 0
  /\ cpu' = [cpu EXCEPT ![Listener] = 0]
  /\ ret' = [ret EXCEPT ![Listener] = 0]
  /\ nwrites' = [nwrites EXCEPT ![Listener] = 0]
  /\ UNCHANGED <<quiet, shared, sockvars, hintlocals>>

\* the return as it would be if an error result ended the loop
UeventReturnBreaks ==
  /\ pc[Listener] = "ev_ret"
  /\ Goto(Listener, IF uret < 0 THEN "exited" ELSE "poll_call")
  /\ msg' = NoMsg
  /\ n' = 0
  /\ uret' = 0
  /\ cpu' = [cpu EXCEPT ![Listener] = 0]
  /\ UNCHANGED <<quiet, shared, low_power_mode_lock, sockvars, retry, ret,
                 hintlocals, nwrites>>
\* lines 156-159 and 145: uevent_event returned before line 115 (with -1,
\* which is logged, or with 0 for an event of another kind); the loop goes
\* round
UeventReturn ==
  /\ pc[Listener] = "ev_ret"
  /\ Goto(Listener, "poll_call")
  /\ msg' = NoMsg
  /\ n' = 0
  /\ uret' = 0
  /\ cpu' = [cpu EXCEPT ![Listener] = 0]
  /\ UNCHANGED <<quiet, shared, low_power_mode_lock, sockvars, retry, ret,
                 hintlocals, nwrites>>

(***************************************************************************)
(* grouper_power_hint (lines 242-279), run by a caller thread t.  The host  *)
(* calls init once at start-up, before it sends hints.                     *)
(***************************************************************************)
\* whether flag and mode agree for CPU c: nothing is left to reconcile
Consistent(c) == freq_set[c] = low_power_mode

\* lines 249-251: POWER_HINT_INTERACTION is entered
HintInteraction(t) ==
  /\ pc[t] = "idle"
  /\ pc[Host] = "init_done"
  /\ Goto(t, "boost_write")
  /\ UNCHANGED <<quiet, shared, low_power_mode_lock, sockvars, evlocals,
                 cpu, ret, hintlocals, nwrites>>

\* the boost write as it would be if it waited for the mutex
BoostWriteUnderLock(t) ==
  /\ pc[t] = "boost_write"
  /\ low_power_mode_lock = NoThread
  /\ Goto(t, "idle")
  /\ UNCHANGED <<quiet, shared, low_power_mode_lock, sockvars, evlocals,
                 cpu, ret, hintlocals, nwrites>>
\* line 250: one sysfs_write to the boostpulse endpoint, result dropped
BoostWrite(t) ==
  /\ pc[t] = "boost_write"
  /\ Goto(t, "idle")
  /\ UNCHANGED <<quiet, shared, low_power_mode_lock, sockvars, evlocals,
                 cpu, ret, hintlocals, nwrites>>

\* line 252: POWER_HINT_LOW_POWER is entered; the thread goes on to wait for
\* the mutex
HintLowPower(t) ==
  /\ pc[t] = "idle"
  /\ pc[Host] = "init_done"
  /\ Goto(t, "hint_lock")
  /\ UNCHANGED <<quiet, shared, low_power_mode_lock, sockvars, evlocals,
                 cpu, ret, hintlocals, nwrites>>

\* line 253.  The argument data (given or NULL) is first read on line 254,
\* so its value is drawn here.
HintLock(t) ==
  /\ pc[t] = "hint_lock"
  /\ MutexLock(t)
  /\ \E d \in BOOLEAN : data' = [data EXCEPT ![t] = d]
  /\ Goto(t, "hint_mode")
  /\ UNCHANGED <<quiet, shared, sockvars, evlocals, cpu, ret, nwrites,
                 again>>

\* lines 254-257 and 264-267: the core-lock trigger is written (an endpoint
\* outside this model's state), the mode is set and the loop starts
HintSetMode(t) ==
  /\ pc[t] = "hint_mode"
  /\ low_power_mode' = data[t]
  /\ again' = [again EXCEPT ![t] =
                 /\ hinted
                 /\ low_power_mode = data[t]
                 /\ \A c \in CPUS : Consistent(c)]
  /\ cpu' = [cpu EXCEPT ![t] = 0]
  /\ Goto(t, IF data[t] THEN "hint_lp" ELSE "hint_n_max")
  /\ UNCHANGED <<quiet, freq_set, scaling_max_freq, scaling_min_freq,
                 low_power_mode_lock, sockvars, evlocals, ret, data,
                 nwrites>>

\* lines 258-263 and 257: one attempt at each bound of the CPU, the flag
\* set if the maximum was written (no retry), then the next CPU
HintLp(t) ==
  /\ pc[t] = "hint_lp"
  /\ \E rmin \in SysfsResults(cpu[t]) :
       scaling_min_freq' =
         SysfsWrite(scaling_min_freq, cpu[t], LOW_POWER_MIN_FREQ, rmin)
  /\ \E r \in SysfsResults(cpu[t]) :
       /\ scaling_max_freq' =
            SysfsWrite(scaling_max_freq, cpu[t], LOW_POWER_MAX_FREQ, r)
       /\ freq_set' = [freq_set EXCEPT ![cpu[t]] = FlagAfter(@, r, TRUE)]
  /\ nwrites' = [nwrites EXCEPT ![t] = @ + 2]
  /\ cpu' = [cpu EXCEPT ![t] = @ + 1]
  /\ Goto(t, IF cpu[t] + 1 < TOTAL_CPUS THEN "hint_lp" ELSE "hint_unlock")
  /\ UNCHANGED <<quiet, low_power_mode, low_power_mode_lock, sockvars,
                 evlocals, ret, hintlocals>>

\* the Normal loop as it would be if it also put the minimum back
HintNMaxRestoresMin(t) ==
  /\ pc[t] = "hint_n_max"
  /\ \E r \in SysfsResults(cpu[t]) :
       /\ scaling_max_freq' =
            SysfsWrite(scaling_max_freq, cpu[t], NORMAL_MAX_FREQ, r)
       /\ scaling_min_freq' =
            SysfsWrite(scaling_min_freq, cpu[t], boot_min_freq, r)
       /\ freq_set' = [freq_set EXCEPT ![cpu[t]] = FlagAfter(@, r, FALSE)]
  /\ nwrites' = [nwrites EXCEPT ![t] = @ + 1]
  /\ cpu' = [cpu EXCEPT ![t] = @ + 1]
  /\ Goto(t, IF cpu[t] + 1 < TOTAL_CPUS THEN "hint_n_max" ELSE "hint_unlock")
  /\ UNCHANGED <<quiet, low_power_mode, low_power_mode_lock, sockvars,
                 evlocals, ret, hintlocals>>
\* lines 268-272 and 267: one attempt at the normal maximum of the CPU, the
\* flag cleared if it was written (no retry), then the next CPU
HintNMax(t) ==
  /\ pc[t] = "hint_n_max"
  /\ \E r \in SysfsResults(cpu[t]) :
       /\ scaling_max_freq' =
            SysfsWrite(scaling_max_freq, cpu[t], NORMAL_MAX_FREQ, r)
       /\ freq_set' = [freq_set EXCEPT ![cpu[t]] = FlagAfter(@, r, FALSE)]
  /\ nwrites' = [nwrites EXCEPT ![t] = @ + 1]
  /\ cpu' = [cpu EXCEPT ![t] = @ + 1]
  /\ Goto(t, IF cpu[t] + 1 < TOTAL_CPUS THEN "hint_n_max" ELSE "hint_unlock")
  /\ UNCHANGED <<quiet, low_power_mode, scaling_min_freq,
                 low_power_mode_lock, sockvars, evlocals, ret, hintlocals>>

\* lines 274-275: unlock and return; the locals of the call are gone
HintUnlock(t) ==
  /\ pc[t] = "hint_unlock"
  /\ MutexUnlock(t)
  /\ Goto(t, "idle")
  /\ hinted' = TRUE
  /\ cpu' = [cpu EXCEPT ![t] = 0]
  /\ data' = [data EXCEPT ![t] = FALSE]
  /\ again' = [again EXCEPT ![t] = FALSE]
  /\ nwrites' = [nwrites EXCEPT ![t] = 0]
  /\ UNCHANGED <<fdvars, bootvars, shared, sockvars, evlocals, ret>>

Next ==
  \/ PowerInit
  \/ UeventInitCreate
  \/ UeventInitEvents
  \/ UeventInitBind
  \/ PollCall
  \/ PollReady
  \/ PollEintr
  \/ PollFail
  \/ UeventRecv
  \/ UeventLock
  \/ UeventBranch
  \/ UeventLpMin
  \/ UeventLpMax
  \/ UeventNMax
  \/ UeventUnlock
  \/ UeventReturn
  \/ \E t \in Callers : HintInteraction(t)
  \/ \E t \in Callers : BoostWrite(t)
  \/ \E t \in Callers : HintLowPower(t)
  \/ \E t \in Callers : HintLock(t)
  \/ \E t \in Callers : HintSetMode(t)
  \/ \E t \in Callers : HintLp(t)
  \/ \E t \in Callers : HintNMax(t)
  \/ \E t \in Callers : HintUnlock(t)

Spec == Init /\ [][Next]_vars

\* Fair scheduling: a thread inside a critical section keeps running (every
\* statement there terminates: sysfs_write and usleep return), and a thread
\* waiting in pthread_mutex_lock gets the mutex if it is free again and
\* again.
SectionFairness ==
  /\ WF_vars(UeventBranch)
  /\ WF_vars(UeventLpMin)
  /\ WF_vars(UeventLpMax)
  /\ WF_vars(UeventNMax)
  /\ WF_vars(UeventUnlock)
  /\ \A t \in Callers :
       /\ SF_vars(HintLock(t))
       /\ WF_vars(HintSetMode(t))
       /\ WF_vars(HintLp(t))
       /\ WF_vars(HintNMax(t))
       /\ WF_vars(HintUnlock(t))
FairSpec == Spec /\ SectionFairness


(***************************************************************************)
(* Properties.                                                             *)
(***************************************************************************)
\* the positions between pthread_mutex_lock and pthread_mutex_unlock
(***************************************************************************)
(* sysfs_write (lines 67-88) step by step.  Every operation of the module  *)
(* is, for the descriptor table, a sequence of sysfs_write calls: the      *)
(* tuning writes of grouper_power_init (the host), the boost, core-lock and *)
(* per-CPU writes of grouper_power_hint (the callers) and the writes of    *)
(* the retry loops of uevent_event (the listener).  What a call does to    *)
(* the descriptors does not depend on the path or the text written, so    *)
(* SpecFd lets every thread make calls in any order and number.            *)
(***************************************************************************)
\* a descriptor number returned by a successful open
SomeFd == 3
\* a call site is reached: sysfs_write is entered
SwCall(t) ==
  /\ sw_pc[t] = "out"
  /\ sw_pc' = [sw_pc EXCEPT ![t] = "open"]
  /\ UNCHANGED <<progvars, sw_fd, sw_ret, open_fds>>

\* line 71: fd = open(path, O_WRONLY) returns a descriptor
SwOpen(t) ==
  /\ sw_pc[t] = "open"
  /\ open_fds < MaxOpenFds
  /\ sw_fd' = [sw_fd EXCEPT ![t] = SomeFd]
  /\ open_fds' = open_fds + 1
  /\ sw_pc' = [sw_pc EXCEPT ![t] = "write"]
  /\ UNCHANGED <<progvars, sw_ret>>

\* lines 71-77: open fails (the file is missing, or no descriptor is left);
\* return -1
SwOpenFails(t) ==
  /\ sw_pc[t] = "open"
  /\ sw_fd' = [sw_fd EXCEPT ![t] = -1]
  /\ sw_ret' = [sw_ret EXCEPT ![t] = -1]
  /\ sw_pc' = [sw_pc EXCEPT ![t] = "return"]
  /\ UNCHANGED <<progvars, open_fds>>

\* lines 79-80: write(fd, s, strlen(s)) succeeds
SwWrite(t) ==
  /\ sw_pc[t] = "write"
  /\ sw_pc' = [sw_pc EXCEPT ![t] = "close"]
  /\ UNCHANGED <<progvars, sw_fd, sw_ret, open_fds>>

\* lines 79-84: write fails; return -1, and fd is not closed
SwWriteFails(t) ==
  /\ sw_pc[t] = "write"
  /\ sw_ret' = [sw_ret EXCEPT ![t] = -1]
  /\ sw_pc' = [sw_pc EXCEPT ![t] = "return"]
  /\ UNCHANGED <<progvars, sw_fd, open_fds>>

\* lines 86-87: close(fd); return 0
SwClose(t) ==
  /\ sw_pc[t] = "close"
  /\ open_fds' = open_fds - 1
  /\ sw_ret' = [sw_ret EXCEPT ![t] = 0]
  /\ sw_pc' = [sw_pc EXCEPT ![t] = "return"]
  /\ UNCHANGED <<progvars, sw_fd>>

\* the call is over; its local fd is gone
SwReturn(t) ==
  /\ sw_pc[t] = "return"
  /\ sw_pc' = [sw_pc EXCEPT ![t] = "out"]
  /\ sw_fd' = [sw_fd EXCEPT ![t] = -1]
  /\ sw_ret' = [sw_ret EXCEPT ![t] = 0]
  /\ UNCHANGED <<progvars, open_fds>>

NextFd ==
  \/ \E t \in Threads : SwCall(t)
  \/ \E t \in Threads : SwOpen(t)
  \/ \E t \in Threads : SwOpenFails(t)
  \/ \E t \in Threads : SwWrite(t)
  \/ \E t \in Threads : SwWriteFails(t)
  \/ \E t \in Threads : SwClose(t)
  \/ \E t \in Threads : SwReturn(t)

SpecFd == Init /\ [][NextFd]_vars
EventSection == {"ev_branch", "ev_lp_min", "ev_lp_max", "ev_n_max",
                 "ev_unlock"}
HintSection == {"hint_mode", "hint_lp", "hint_n_max", "hint_unlock"}
InSection(t) == pc[t] \in EventSection \cup HintSection
LockFree == low_power_mode_lock = NoThread
CallersIdle == \A t \in Callers : pc[t] = "idle"
\* the maximum a mode asks for
ModeMaxFreq(low) == IF low THEN LOW_POWER_MAX_FREQ ELSE NORMAL_MAX_FREQ
\* the listener has just moved
ListenerStep == pc'[Listener] # pc[Listener]
\* the event in hand attempted a maximum write and the last attempt succeeded
EventWroteMax == nwrites[Listener] > 0 /\ ret[Listener] = 0

\* C1: at most one thread at a time is between the lock and the unlock of
\* low_power_mode_lock, the section that reads and writes low_power_mode and
\* freq_set[] and writes the per-CPU endpoints; the thread there holds the
\* mutex.
C1_MutualExclusion ==
  /\ Cardinality({t \in Threads : InSection(t)}) <= 1
  /\ \A t \in Threads : InSection(t) => low_power_mode_lock = t
\* the listener is writing CPU 3's maximum while one caller waits for the
\* mutex and another is about to ask for it
C1_Witness ==
  /\ pc[Listener] = "ev_lp_max"
  /\ cpu[Listener] = TOTAL_CPUS - 1
  /\ \E t \in Callers : pc[t] = "hint_lock"

\* C2 as claimed: when a POWER_HINT_LOW_POWER call is about to return (the
\* loop is done, only the unlock is left), every CPU's maximum holds the
\* bound of the mode just set, or its flag disagrees with the mode so that a
\* later event will act on it.
C2_SetModePostClaimed ==
  \A t \in Callers : pc[t] = "hint_unlock" =>
    \A c \in CPUS :
      \/ scaling_max_freq[c] = ModeMaxFreq(data[t])
      \/ ~Consistent(c)
\* C2 as amended: ... or the call set Normal mode, the flag is false and the
\* maximum still holds what it held when the module was loaded.
C2_SetModePost ==
  \A t \in Callers : pc[t] = "hint_unlock" =>
    /\ low_power_mode = data[t]
    /\ \A c \in CPUS :
         \/ scaling_max_freq[c] = ModeMaxFreq(data[t])
         \/ ~Consistent(c)
         \/ /\ ~data[t]
            /\ ~freq_set[c]
            /\ scaling_max_freq[c] = boot_max_freq
\* a low-power call is returning after its write to CPU 3 failed and its
\* writes to CPU 0 succeeded
C2_Witness ==
  \E t \in Callers :
    /\ pc[t] = "hint_unlock"
    /\ data[t]
    /\ freq_set[0]
    /\ ~freq_set[TOTAL_CPUS - 1]
    /\ scaling_max_freq[TOTAL_CPUS - 1] = NORMAL_MAX_FREQ

\* C3 as claimed: while the lock is free, a true flag means both endpoints of
\* the CPU hold the low-power bounds.
C3_AppliedMeansBothBounds ==
  LockFree =>
    \A c \in CPUS : freq_set[c] =>
      /\ scaling_max_freq[c] = LOW_POWER_MAX_FREQ
      /\ scaling_min_freq[c] = LOW_POWER_MIN_FREQ
\* C3 as amended: while the lock is free, a true flag means the CPU's
\* maximum endpoint holds the low-power maximum.
C3_AppliedMeansMaxBound ==
  LockFree =>
    \A c \in CPUS : freq_set[c] => scaling_max_freq[c] = LOW_POWER_MAX_FREQ
\* the flag of CPU 3 is true although its minimum was never written
C3_Witness ==
  /\ LockFree
  /\ freq_set[TOTAL_CPUS - 1]
  /\ scaling_min_freq[TOTAL_CPUS - 1] = BOOT_FREQ
  /\ scaling_min_freq[0] = LOW_POWER_MIN_FREQ

\* C4 as claimed: when an online event for a CPU has been handled (only the
\* unlock is left) and no hint call is in progress or waiting, so that the
\* event came after the last mode change and the run may end here, the
\* CPU's flag agrees with the mode.
C4_ConvergenceClaimed ==
  (pc[Listener] = "ev_unlock" /\ CallersIdle) => Consistent(cpu[Listener])
\* C4 as amended: ... provided the event needed no write or one of its
\* maximum writes succeeded within the retry budget.
C4_Convergence ==
  (/\ pc[Listener] = "ev_unlock"
   /\ CallersIdle
   /\ (nwrites[Listener] = 0 \/ ret[Listener] = 0))
  => Consistent(cpu[Listener])
\* an event in low-power mode set the flag after some failed attempts
C4_Witness ==
  /\ pc[Listener] = "ev_unlock"
  /\ CallersIdle
  /\ low_power_mode
  /\ EventWroteMax
  /\ retry < RETRY_TIME_CHANGING_FREQ
  /\ freq_set[cpu[Listener]]

LowMaxWrite == {"ev_lp_max", "hint_lp"}
NormalMaxWrite == {"ev_n_max", "hint_n_max"}
\* thread t makes a write in this step, at one of the positions in labels,
\* to CPU c
WritesAt(t, labels, c) ==
  /\ pc[t] \in labels
  /\ cpu[t] = c
  /\ nwrites'[t] > nwrites[t]

\* C6: a flag changes only in the step that writes the CPU's maximum: to
\* true only where the low-power maximum is written and the endpoint then
\* holds it, to false only where the normal maximum is written and the
\* endpoint then holds it; in uevent_event the result of that write is 0.
\* So an operation whose maximum writes all fail leaves the flag as it was.
C6_FailedWriteNeverFlips ==
  [][\A c \in CPUS : freq_set'[c] # freq_set[c] =>
       \E t \in Threads :
         /\ WritesAt(t, IF freq_set'[c] THEN LowMaxWrite ELSE NormalMaxWrite,
                     c)
         /\ scaling_max_freq'[c] = ModeMaxFreq(freq_set'[c])
         /\ (t = Listener => ret'[t] = 0)
         /\ \A j \in CPUS \ {c} : freq_set'[j] = freq_set[j]]_vars
\* every attempt of an event in low-power mode failed and the flag of its
\* CPU is still false
C6_Witness ==
  /\ pc[Listener] = "ev_unlock"
  /\ low_power_mode
  /\ retry = 0
  /\ ret[Listener] = -1
  /\ nwrites[Listener] = 2 * RETRY_TIME_CHANGING_FREQ
  /\ ~freq_set[cpu[Listener]]

\* C7: an online event that finds its CPU's flag disagreeing with the mode
\* (which only a hint call whose write failed, or an event whose attempts
\* all failed, can leave behind) and whose maximum write succeeds within
\* the retries leaves the flag agreeing with the mode and the maximum
\* endpoint holding the mode's bound; while it is handled no other CPU's
\* flag changes and the mode does not change.
C7_SelfHealing ==
  /\ [](pc[Listener] = "ev_unlock" /\ EventWroteMax =>
          /\ Consistent(cpu[Listener])
          /\ scaling_max_freq[cpu[Listener]] = ModeMaxFreq(low_power_mode))
  /\ [][pc[Listener] \in EventSection =>
          /\ low_power_mode' = low_power_mode
          /\ \A j \in CPUS \ {cpu[Listener]} : freq_set'[j] = freq_set[j]]_vars
\* an event in Normal mode, after a hint call failed to restore CPU 3,
\* cleared the flag of CPU 3 on its last attempt but one
C7_Witness ==
  /\ pc[Listener] = "ev_unlock"
  /\ ~low_power_mode
  /\ EventWroteMax
  /\ retry = 2
  /\ cpu[Listener] = TOTAL_CPUS - 1
  /\ ~freq_set[TOTAL_CPUS - 1]
  /\ scaling_max_freq[TOTAL_CPUS - 1] = NORMAL_MAX_FREQ

\* C8: an online event for a CPU whose flag agrees with the mode goes from
\* the test of line 116 straight to the unlock: no write is made, and the
\* lock, the test and the unlock leave the mode, the flags and the endpoints
\* as they were.
C8_ConsistentIsNoOp ==
  [][/\ (pc[Listener] = "ev_branch" /\ Consistent(cpu[Listener])
           /\ ListenerStep) =>
          /\ pc'[Listener] = "ev_unlock"
          /\ nwrites'[Listener] = 0
          /\ UNCHANGED shared
     /\ (pc[Listener] \in {"ev_lock", "ev_unlock"} /\ ListenerStep) =>
          UNCHANGED shared]_vars
\* a late event for CPU 2 in low-power mode, its flag already true
C8_Witness ==
  /\ pc[Listener] = "ev_unlock"
  /\ cpu[Listener] = 2
  /\ low_power_mode
  /\ freq_set[2]
  /\ nwrites[Listener] = 0

\* the online messages whose CPU index reads "4" and "-1"
OutOfRangeMsgs == {OnlineMsg(Tail4), OnlineMsg(TailMinus1)}
\* C9: an online event whose CPU index reads "4" or "-1" never takes the
\* listener past line 113: it does not acquire the mutex, hence changes
\* neither the mode nor a flag and writes no endpoint.
C9_OutOfRangeRejected ==
  msg.str \in OutOfRangeMsgs =>
    /\ pc[Listener] \notin EventSection
    /\ nwrites[Listener] = 0

\* C10: a datagram of UEVENT_MSG_LEN bytes or more is dropped before the
\* signature match and the conversion: the call returns -1 with n and cpu
\* untouched by lines 107-109, the mutex is not taken, and receiving it
\* changes neither the mode, the flags nor the endpoints.
C10_OverflowDiscarded ==
  /\ [](msg.len >= UEVENT_MSG_LEN =>
          /\ pc[Listener] = "ev_ret"
          /\ uret = -1
          /\ n = msg.len
          /\ cpu[Listener] = 0
          /\ nwrites[Listener] = 0
          /\ low_power_mode_lock # Listener)
  /\ [][(pc[Listener] = "uevent_event" /\ msg'.len >= UEVENT_MSG_LEN) =>
          UNCHANGED <<shared, low_power_mode_lock>>]_vars
\* an oversize datagram naming CPU 3 was dropped in low-power mode while the
\* flag of CPU 3 was false
C10_Witness ==
  /\ pc[Listener] = "ev_ret"
  /\ msg \in OverflowDatagrams
  /\ Strstr(msg.str, UEVENT_STRING)
  /\ low_power_mode
  /\ ~freq_set[TOTAL_CPUS - 1]
  /\ LockFree

\* the positions of the per-CPU loops of grouper_power_hint
HintLoop == {"hint_lp", "hint_n_max"}
\* the sysfs_write calls the hint loop makes for one CPU in the mode set
HintWritesPerCpu == IF low_power_mode THEN 2 ELSE 1
\* caller t makes the writes of one loop iteration in this step
HintIteration(t) == pc[t] \in HintLoop /\ nwrites'[t] # nwrites[t]

LockCall == {"ev_lock", "hint_lock"}
\* the thread holding the mutex takes its next step
HolderStep ==
  \/ /\ low_power_mode_lock = Listener
     /\ \/ UeventBranch
        \/ UeventLpMin
        \/ UeventLpMax
        \/ UeventNMax
        \/ UeventUnlock
  \/ \E t \in Callers :
       /\ low_power_mode_lock = t
       /\ \/ HintSetMode(t)
          \/ HintLp(t)
          \/ HintNMax(t)
          \/ HintUnlock(t)

\* C12: the mutex is held exactly by the thread that is between a lock and
\* the matching unlock, so it is free whenever no such operation is in
\* progress (every return path after a lock passes the unlock, also when
\* every write failed); a thread about to lock does not hold the mutex; and
\* whenever the mutex is held its holder can take a step, so no thread
\* waits on a mutex that will not move.
C12_LockDiscipline ==
  /\ low_power_mode_lock \in Threads \cup {NoThread}
  /\ \A t \in Threads : low_power_mode_lock = t <=> InSection(t)
  /\ \A t \in Threads : pc[t] \in LockCall => low_power_mode_lock # t
  /\ ((\A t \in Threads : ~InSection(t)) => LockFree)
  /\ (~LockFree => ENABLED HolderStep)
\* the listener is about to unlock after every attempt of its event failed,
\* while a caller waits for the mutex
C12_Witness ==
  /\ pc[Listener] = "ev_unlock"
  /\ low_power_mode_lock = Listener
  /\ retry = 0
  /\ ret[Listener] = -1
  /\ \E t \in Callers : pc[t] = "hint_lock"

\* caller t takes a step of POWER_HINT_INTERACTION
BoostStep(t) ==
  /\ pc'[t] # pc[t]
  /\ pc[t] = "boost_write" \/ pc'[t] = "boost_write"

\* C13: a POWER_HINT_INTERACTION call goes from idle to the boost write and
\* from the write straight back to idle (one sysfs_write, line 250, then
\* break); neither step touches the mutex, the mode, a flag, a per-CPU
\* endpoint or the count of per-CPU writes; and the write never waits: it
\* is enabled in every state, whoever holds the mutex.
C13_BoostOutsideLock ==
  /\ [](\A t \in Callers : pc[t] = "boost_write" =>
          /\ low_power_mode_lock # t
          /\ ENABLED BoostWrite(t))
  /\ [][\A t \in Callers : BoostStep(t) =>
          /\ (pc[t] = "boost_write" => pc'[t] = "idle")
          /\ (pc'[t] = "boost_write" => pc[t] = "idle")
          /\ UNCHANGED <<shared, low_power_mode_lock, nwrites, cpu, ret,
                         retry>>]_vars
\* a caller is at the boost write while the listener, in the middle of its
\* retries, holds the mutex and the other caller waits for it
C13_Witness ==
  /\ \E t \in Callers : pc[t] = "boost_write"
  /\ \E t \in Callers : pc[t] = "hint_lock"
  /\ low_power_mode_lock = Listener
  /\ pc[Listener] = "ev_lp_min"
  /\ retry < RETRY_TIME_CHANGING_FREQ

\* C14: whenever the listener is inside poll (its first wait included), the
\* wait was entered with read interest (POLLIN in the events it was handed)
\* on a socket that bind has already attached to the kernel-event groups.
C14_FirstWaitSeesBoundSocket ==
  pc[Listener] = "poll_wait" => ("POLLIN" \in polled /\ bound)

\* C15: when the endpoints did not hold the low-power maximum at load time,
\* then in every state in which the mutex is free a CPU's flag is true
\* exactly if its maximum endpoint holds the low-power maximum, whatever
\* the mode is and whatever its minimum endpoint holds.
C15_FlagPolarity ==
  (LockFree /\ boot_max_freq # LOW_POWER_MAX_FREQ) =>
    \A c \in CPUS : freq_set[c] <=> scaling_max_freq[c] = LOW_POWER_MAX_FREQ
\* Normal mode with the mutex free: CPU 3 is still capped and flagged after
\* a failed restore, its minimum never written, while CPU 0 is restored
C15_Witness ==
  /\ LockFree
  /\ boot_max_freq # LOW_POWER_MAX_FREQ
  /\ ~low_power_mode
  /\ freq_set[TOTAL_CPUS - 1]
  /\ scaling_max_freq[TOTAL_CPUS - 1] = LOW_POWER_MAX_FREQ
  /\ scaling_min_freq[TOTAL_CPUS - 1] = BOOT_FREQ
  /\ ~freq_set[0]
  /\ scaling_max_freq[0] = NORMAL_MAX_FREQ
  /\ scaling_min_freq[0] = LOW_POWER_MIN_FREQ

\* the attempts at the maximum endpoint the event in hand has made
MaxAttempts ==
  RETRY_TIME_CHANGING_FREQ - retry + (IF ret[Listener] = 0 THEN 1 ELSE 0)

\* C16: while an online event is handled, retry counts the failed attempts
\* down from RETRY_TIME_CHANGING_FREQ: the loop is still running only if
\* every attempt so far failed and fewer than 20 were made, and the unlock
\* is reached after a successful attempt or after exactly 20 failed ones,
\* with one maximum write per attempt.  Under fair scheduling the listener
\* always leaves its section and frees the mutex, and a caller waiting for
\* the mutex gets it and returns.
C16_BoundedRetry ==
  /\ [](/\ retry \in 0 .. RETRY_TIME_CHANGING_FREQ
        /\ (pc[Listener] \in {"ev_lp_min", "ev_lp_max", "ev_n_max"} =>
              /\ retry >= 1
              /\ (nwrites[Listener] > 1 => ret[Listener] = -1)
              /\ nwrites[Listener] =
                   IF pc[Listener] = "ev_n_max"
                   THEN RETRY_TIME_CHANGING_FREQ - retry
                   ELSE 2 * (RETRY_TIME_CHANGING_FREQ - retry)
                        + (IF pc[Listener] = "ev_lp_max" THEN 1 ELSE 0))
        /\ (pc[Listener] = "ev_unlock" /\ nwrites[Listener] > 0 =>
              /\ (retry = 0 <=> ret[Listener] = -1)
              /\ nwrites[Listener] \in {MaxAttempts, 2 * MaxAttempts}
              /\ MaxAttempts <= RETRY_TIME_CHANGING_FREQ))
  /\ (pc[Listener] \in EventSection ~> pc[Listener] = "poll_call")
  /\ \A t \in Callers : pc[t] = "hint_lock" ~> pc[t] = "idle"
\* the twentieth attempt of an event failed like the nineteen before it,
\* and a caller is waiting for the mutex
C16_Witness ==
  /\ pc[Listener] = "ev_unlock"
  /\ retry = 0
  /\ nwrites[Listener] = RETRY_TIME_CHANGING_FREQ
  /\ ~low_power_mode
  /\ \E t \in Callers : pc[t] = "hint_lock"

\* C17: while the listener is between the lock and the unlock of an event
\* for CPU c, the mode does not change, no flag other than c's changes and
\* no endpoint of another CPU changes; a listener step outside that section
\* changes neither the mode, a flag nor an endpoint; and the mode changes
\* only in the step of grouper_power_hint that assigns it (lines 256, 266).
C17_EventFrame ==
  [][/\ (pc[Listener] \in EventSection =>
           /\ low_power_mode' = low_power_mode
           /\ \A j \in CPUS \ {cpu[Listener]} :
                /\ freq_set'[j] = freq_set[j]
                /\ scaling_max_freq'[j] = scaling_max_freq[j]
                /\ scaling_min_freq'[j] = scaling_min_freq[j])
     /\ (pc[Listener] \notin EventSection /\ ListenerStep =>
           UNCHANGED shared)
     /\ (low_power_mode' # low_power_mode =>
           \E t \in Callers : pc[t] = "hint_mode" /\ pc'[t] # pc[t])]_vars
\* an event for CPU 3 in low-power mode set its flag and its maximum on a
\* later attempt; CPU 2 is as the hint call left it
C17_Witness ==
  /\ pc[Listener] = "ev_unlock"
  /\ cpu[Listener] = TOTAL_CPUS - 1
  /\ low_power_mode
  /\ EventWroteMax
  /\ nwrites[Listener] > 2
  /\ freq_set[TOTAL_CPUS - 1]
  /\ scaling_min_freq[TOTAL_CPUS - 1] = BOOT_FREQ
  /\ scaling_min_freq[2] = LOW_POWER_MIN_FREQ

\* the positions at which a thread reconciles a CPU toward Normal mode
NormalSteps == {"ev_n_max", "hint_n_max"}

\* C18: a thread reconciles toward Normal only in Normal mode (the listener
\* only for a CPU whose flag is true); such a step leaves every minimum
\* endpoint alone and leaves the CPU's maximum holding the normal maximum
\* or what it held; and nothing ever takes the low-power minimum out of a
\* minimum endpoint again, so a return to Normal mode leaves it there.
C18_NormalWritesOnlyMax ==
  /\ [](\A t \in Threads : pc[t] \in NormalSteps =>
          /\ ~low_power_mode
          /\ (t = Listener => freq_set[cpu[t]]))
  /\ [][/\ \A t \in Threads :
             (pc[t] \in NormalSteps /\ nwrites'[t] # nwrites[t]) =>
               /\ scaling_min_freq' = scaling_min_freq
               /\ scaling_max_freq'[cpu[t]] \in
                    {NORMAL_MAX_FREQ, scaling_max_freq[cpu[t]]}
        /\ \A c \in CPUS :
             scaling_min_freq[c] = LOW_POWER_MIN_FREQ =>
               scaling_min_freq'[c] = LOW_POWER_MIN_FREQ]_vars
\* a call that set Normal mode after low-power mode is returning; every
\* write of both calls succeeded: every maximum is back at the normal
\* maximum, every flag is false and every minimum is still the low-power one
C18_Witness ==
  \E t \in Callers :
    /\ pc[t] = "hint_unlock"
    /\ ~data[t]
    /\ boot_max_freq = BOOT_FREQ
    /\ \A c \in CPUS :
         /\ ~freq_set[c]
         /\ scaling_max_freq[c] = NORMAL_MAX_FREQ
         /\ scaling_min_freq[c] = LOW_POWER_MIN_FREQ

\* C19: the listener leaves its loop only from inside poll (line 154, a
\* failure other than EINTR); from every other position its next step
\* stays in the loop: after uevent_event returned, whatever it returned
\* and whatever the datagram was, the next position is the poll call, and
\* inside poll an interrupted wait can always go back to the call.  Once
\* the listener has left it never runs again, so no event is handled; it
\* does not hold the mutex, and callers (once grouper_power_init is done)
\* can still enter, lock and run POWER_HINT_LOW_POWER.
C19_ListenerResilience ==
  /\ [](/\ (pc[Listener] = "ev_ret" => ENABLED UeventReturn)
        /\ (pc[Listener] = "poll_call" => ENABLED PollCall)
        /\ (pc[Listener] = "poll_wait" => ENABLED PollEintr)
        /\ (pc[Listener] = "exited" =>
              /\ low_power_mode_lock # Listener
              /\ \A t \in Callers :
                   /\ (pc[t] = "idle" /\ pc[Host] = "init_done") =>
                        ENABLED HintLowPower(t)
                   /\ (pc[t] = "hint_lock" /\ LockFree) =>
                        ENABLED HintLock(t)))
  /\ [][/\ (pc'[Listener] = "exited" =>
              pc[Listener] \in {"poll_wait", "exited"})
        /\ (pc[Listener] \in {"ev_ret", "ev_unlock"} /\ ListenerStep =>
              pc'[Listener] = "poll_call")
        /\ (pc[Listener] = "uevent_event" /\ ListenerStep =>
              pc'[Listener] \in {"ev_ret", "ev_lock"})
        /\ (pc[Listener] = "exited" =>
              /\ pc'[Listener] = "exited"
              /\ UNCHANGED <<evlocals, cpu[Listener], ret[Listener],
                             nwrites[Listener]>>)]_vars
\* poll has failed and the listener is gone, in low-power mode with the
\* flag of CPU 3 false; a caller is inside a low-power hint all the same
C19_Witness ==
  /\ pc[Listener] = "exited"
  /\ low_power_mode
  /\ ~freq_set[TOTAL_CPUS - 1]
  /\ \E t \in Callers : pc[t] = "hint_lp" /\ cpu[t] = 2

\* the descriptors that calls in progress hold between open and close
HeldFds == Cardinality({t \in Threads : sw_pc[t] \in {"write", "close"}})

\* C20: the process has no descriptor open through sysfs_write other than
\* those of calls that are between their open and their close: a call that
\* has returned, with 0 or with -1, has left none behind, so with no call
\* in progress as many descriptors are open as before the first call.
C20_DescriptorBalance == open_fds = HeldFds

=============================================================================
